---------------------------- MODULE Spec2Model ----------------------------
(***************************************************************************)
(* Acquisition functions of RoBO: LogEI (robo/acquisition/LogEI.py) and PI  *)
(* (robo/acquisition/PI.py).                                                *)
(*                                                                          *)
(* Numbers.  A float is a record [k, n, d]:                                 *)
(*   k = "fin"   the rational n/d (d > 0, lowest terms);                    *)
(*   k = "ln"    the real number ln(n/d), n/d > 0 (how the results of       *)
(*               np.log, norm.logpdf and norm.logcdf are held, exactly);    *)
(*   k = "+inf", "-inf", "nan"   the IEEE specials numpy produces;          *)
(*   k = "-fmax" the literal -np.finfo(np.float).max.                       *)
(* Arithmetic is exact (no rounding); signed zeros are not distinguished.   *)
(* The standard normal density and distribution function of scipy.stats are *)
(* tabulated to six decimals on the grid z = j/4, |z| <= 4.                 *)
(***************************************************************************)
EXTENDS Integers, Sequences, FiniteSets, TLC

\* ------------------------------------------------------------------ bounds
\* Means and incumbents range over k/2 for k in -MaxMean..MaxMean.
MaxMean == 2
\* Largest number of rows of a candidate batch X.
MaxRows == 2
\* Largest number of model updates between calls that is followed.
MaxObservations == 1

\* --------------------------------------------------------- exact arithmetic
Abs(i) == IF i < 0 THEN -i ELSE i

RECURSIVE GCD(_, _)
GCD(i, j) == IF j = 0 THEN i ELSE GCD(j, i % j)

\* The rational n/d (d > 0) in lowest terms.
Q(n, d) ==
  LET g == GCD(Abs(n), d)
  IN  [k |-> "fin", n |-> n \div g, d |-> d \div g]

\* The real number ln(n/d), n, d > 0.
Ln(n, d) ==
  LET g == GCD(n, d)
  IN  [k |-> "ln", n |-> n \div g, d |-> d \div g]

PosInf == [k |-> "+inf", n |-> 1, d |-> 1]
NegInf == [k |-> "-inf", n |-> -1, d |-> 1]
NaN == [k |-> "nan", n |-> 0, d |-> 1]
\* -np.finfo(np.float).max
NegFloatMax == [k |-> "-fmax", n |-> -1, d |-> 1]

Zero == Q(0, 1)
One == Q(1, 1)

IsFin(x) == x.k = "fin"
IsLn(x) == x.k = "ln"
IsNaN(x) == x.k = "nan"
IsInf(x) == x.k \in {"+inf", "-inf"}

\* Sign of a fin or infinite float: -1, 0, 1.
Sgn(x) == IF x.n > 0 THEN 1 ELSE IF x.n < 0 THEN -1 ELSE 0
InfOf(sg) == IF sg > 0 THEN PosInf ELSE NegInf

\* n1/d1 * n2/d2, cancelling across before multiplying.
QMul(n1, d1, n2, d2) ==
  LET g1 == GCD(Abs(n1), d2)
      g2 == GCD(Abs(n2), d1)
  IN  [n |-> (n1 \div g1) * (n2 \div g2), d |-> (d1 \div g2) * (d2 \div g1)]

\* n1/d1 + n2/d2 over the least common denominator.
QAdd(n1, d1, n2, d2) ==
  LET g == GCD(d1, d2)
  IN  Q(n1 * (d2 \div g) + n2 * (d1 \div g), (d1 \div g) * d2)

\* n1/d1 < n2/d2
QLess(n1, d1, n2, d2) ==
  LET g == GCD(d1, d2)
  IN  n1 * (d2 \div g) < n2 * (d1 \div g)

\* ------------------------------------------------ float operations (numpy)
\* -x
FNeg(x) ==
  CASE IsFin(x) -> Q(-x.n, x.d)
    [] IsLn(x) -> Ln(x.d, x.n)
    [] x.k = "+inf" -> NegInf
    [] x.k = "-inf" -> PosInf
    [] OTHER -> NaN

\* x + y.  The sum of two logarithms is the logarithm of the product.
FAdd(x, y) ==
  CASE IsNaN(x) \/ IsNaN(y) -> NaN
    [] IsInf(x) /\ IsInf(y) -> IF x.k = y.k THEN x ELSE NaN
    [] IsInf(x) -> x
    [] IsInf(y) -> y
    [] IsFin(x) /\ IsFin(y) -> QAdd(x.n, x.d, y.n, y.d)
    [] IsLn(x) /\ IsLn(y) ->
         LET p == QMul(x.n, x.d, y.n, y.d) IN Ln(p.n, p.d)
    [] OTHER -> NaN

\* x - y
FSub(x, y) == FAdd(x, FNeg(y))

\* x * y for fin, infinite and nan operands.
FMul(x, y) ==
  CASE IsNaN(x) \/ IsNaN(y) -> NaN
    [] IsInf(x) \/ IsInf(y) ->
         IF Sgn(x) * Sgn(y) = 0 THEN NaN ELSE InfOf(Sgn(x) * Sgn(y))
    [] IsFin(x) /\ IsFin(y) ->
         LET p == QMul(x.n, x.d, y.n, y.d) IN Q(p.n, p.d)
    [] OTHER -> NaN

\* x / y as numpy divides arrays: x/0 is +-inf, 0/0 is nan (a warning, no
\* exception).
FDiv(x, y) ==
  CASE IsNaN(x) \/ IsNaN(y) -> NaN
    [] IsInf(x) /\ IsInf(y) -> NaN
    [] IsInf(x) -> IF Sgn(y) < 0 THEN FNeg(x) ELSE x
    [] IsInf(y) -> Zero
    [] IsFin(x) /\ IsFin(y) ->
         IF y.n = 0
           THEN IF x.n = 0 THEN NaN ELSE InfOf(Sgn(x))
           ELSE LET p == QMul(x.n, x.d, Sgn(y) * y.d, Abs(y.n))
                IN  Q(p.n, p.d)
    [] OTHER -> NaN

\* x < y.  Every comparison with nan is false.  Two logarithms compare as
\* their arguments do; ln(0) = -inf lies below every logarithm.
FLess(x, y) ==
  CASE IsNaN(x) \/ IsNaN(y) -> FALSE
    [] x.k = "+inf" \/ y.k = "-inf" -> FALSE
    [] x.k = "-inf" \/ y.k = "+inf" -> TRUE
    [] x.k = y.k -> QLess(x.n, x.d, y.n, y.d)
    [] OTHER -> FALSE

FGreater(x, y) == FLess(y, x)
FEq(x, y) == ~IsNaN(x) /\ ~IsNaN(y) /\ x = y
FGeq(x, y) == FLess(y, x) \/ FEq(x, y)
FLeq(x, y) == FLess(x, y) \/ FEq(x, y)

\* abs(x); for a logarithm, |ln r| = ln(max(r, 1/r)).
FAbs(x) ==
  CASE IsFin(x) -> Q(Abs(x.n), x.d)
    [] IsLn(x) -> IF x.n >= x.d THEN x ELSE Ln(x.d, x.n)
    [] IsInf(x) -> PosInf
    [] OTHER -> NaN

\* Python's max(a, b): b if b > a else a.
FMax(x, y) == IF FGreater(y, x) THEN y ELSE x

\* np.log(x): ln of a positive number, -inf at 0, nan below 0.
np_log(x) ==
  CASE IsFin(x) -> IF x.n > 0 THEN Ln(x.n, x.d)
                   ELSE IF x.n = 0 THEN NegInf ELSE NaN
    [] x.k = "+inf" -> PosInf
    [] OTHER -> NaN

\* np.exp(x)
np_exp(x) ==
  CASE IsLn(x) -> Q(x.n, x.d)
    [] x.k = "-inf" -> Zero
    [] x.k = "+inf" -> PosInf
    [] IsFin(x) /\ x.n = 0 -> One
    [] OTHER -> NaN

ISqrt(i) == CHOOSE r \in 0..i : r * r = i

\* np.sqrt(x) of a non-negative rational with square numerator and denominator.
np_sqrt(x) ==
  CASE IsFin(x) /\ x.n >= 0 -> Q(ISqrt(x.n), ISqrt(x.d))
    [] x.k = "+inf" -> PosInf
    [] OTHER -> NaN

\* ----------------------------------------------- scipy.stats.norm, tabulated
\* 10^6 * pdf(j/4), j = 0..16
PdfTable ==
  << 398942, 386668, 352065, 301137, 241971, 182649, 129518, 86277, 53991,
     31740, 17528, 9094, 4432, 2029, 873, 353, 134 >>

\* 10^6 * cdf(j/4), j = 0..16
CdfTable ==
  << 500000, 598706, 691462, 773373, 841345, 894350, 933193, 959941, 977250,
     987776, 993790, 997020, 998650, 999423, 999767, 999912, 999968 >>

\* Index of a finite z on the grid: |z| * 4.
GridIndex(z) == (Abs(z.n) * 4) \div z.d

\* norm.pdf(z)
norm_pdf(z) ==
  CASE IsFin(z) -> Q(PdfTable[GridIndex(z) + 1], 1000000)
    [] IsInf(z) -> Zero
    [] OTHER -> NaN

\* norm.cdf(z)
norm_cdf(z) ==
  CASE IsFin(z) ->
         IF z.n >= 0 THEN Q(CdfTable[GridIndex(z) + 1], 1000000)
         ELSE Q(1000000 - CdfTable[GridIndex(z) + 1], 1000000)
    [] z.k = "+inf" -> One
    [] z.k = "-inf" -> Zero
    [] OTHER -> NaN

\* norm.logpdf(z)
norm_logpdf(z) == np_log(norm_pdf(z))

\* norm.logcdf(z)
norm_logcdf(z) == np_log(norm_cdf(z))

\* ------------------------------------------------------------ input domains
\* Search box: X_lower and X_upper of shape (1, n), n = 2.
LowerBound == << 1, 1 >>
UpperBound == << 2, 2 >>

\* Coordinates of a candidate: the box and one step outside it on either side.
Coords == (LowerBound[1] - 1)..(UpperBound[1] + 1)
Points == [1..Len(LowerBound) -> Coords]
\* A batch X of shape (N, n), 1 <= N <= MaxRows.
Batches == UNION { [1..N -> Points] : N \in 1..MaxRows }
Point(c) == [j \in 1..Len(LowerBound) |-> c]

Means == { Q(i, 2) : i \in -MaxMean..MaxMean }
Variances == { Q(0, 1), Q(1, 1), Q(4, 1) }
\* Exploration margins an evaluator is constructed with.
Pars == { Q(0, 1), Q(1, 2), Q(1, 1) }
\* Answers of model.predictive_gradients: dmdx[0] and ds2dx[0], n entries each.
Gradients ==
  { [dmdx |-> [j \in 1..Len(LowerBound) |-> Q(1, 1)],
     ds2dx |-> [j \in 1..Len(LowerBound) |-> Q(0, 1)]],
    [dmdx |-> [j \in 1..Len(LowerBound) |-> Q(j - 2, 1)],
     ds2dx |-> [j \in 1..Len(LowerBound) |-> Q(2 * j - 3, 1)]] }

\* ------------------------------------------------------------------- state
VARIABLES
  self,          \* the evaluator: class ("LogEI" or "PI"), par, X_lower, X_upper
  model,         \* the surrogate: eta and its answers (m, v, gradients) for X
  X,             \* the candidate batch the driver evaluates
  ret,           \* outcome of the last __call__, with the model methods it invoked
  observations   \* model updates so far

vars == << self, model, X, ret, observations >>

\* No call made since the model last changed.
Idle ==
  [op |-> "none", derivative |-> FALSE, raised |-> "none", f |-> << >>,
   df |-> << >>, predict |-> 0, getCurrentBest |-> 0,
   predictive_gradients |-> 0, eta |-> NaN, cases |-> << >>,
   log_args |-> {}]

\* ------------------------------------------------------ model collaborator
\* model.predict(X, Z): mean and variance vectors, one entry per row of X.
model_predict(mdl, XX) == [m |-> mdl.m, v |-> mdl.v]

model_getCurrentBestFromMean(mdl) == mdl.m[1]

\* model.getCurrentBest()
model_getCurrentBest(mdl) == mdl.eta

\* model.predictive_gradients(X)
model_predictive_gradients(mdl, XX) == [dmdx |-> mdl.dmdx, ds2dx |-> mdl.ds2dx]

\* --------------------------------------------------------------- bounds guard
OutOfBoundsFirstRow(XX, lower, upper) ==
  \E j \in 1..Len(lower) : XX[1][j] < lower[j] \/ XX[1][j] > upper[j]

\* np.any(X < self.X_lower) or np.any(X > self.X_upper)
OutOfBounds(XX, lower, upper) ==
  \/ \E i \in 1..Len(XX) : \E j \in 1..Len(lower) : XX[i][j] < lower[j]
  \/ \E i \in 1..Len(XX) : \E j \in 1..Len(upper) : XX[i][j] > upper[j]

\* ------------------------------------------------------------------- LogEI
\* The outcome of a call that raises BayesianOptimizationError(code).
Raise(op, derivative, code) ==
  [Idle EXCEPT !.op = op, !.derivative = derivative, !.raised = code]

\* z = (eta - m) / s - self.par, elementwise
LogEI_z(eta, m, s, par) ==
  [i \in 1..Len(m) |-> FSub(FDiv(FSub(eta, m[i]), s[i]), par)]

DegenerateCase1Unguarded(sigma, zi) ==
  [val |-> FAdd(np_log(sigma), norm_logpdf(zi)), case |-> "case1",
   logs |-> {sigma}]

\* Degenerate case 1: first term vanishes
DegenerateCase1(sigma, zi) ==
  IF FGreater(sigma, Zero)
    THEN [val |-> FAdd(np_log(sigma), norm_logpdf(zi)), case |-> "case1",
          logs |-> {sigma}]
    ELSE [val |-> NegInf, case |-> "case1", logs |-> {}]

DegenerateCase2Unguarded(mu, eta, par_s) ==
  [val |-> np_log(FSub(FSub(eta, mu), par_s)), case |-> "case2",
   logs |-> {FSub(FSub(eta, mu), par_s)}]

\* Degenerate case 2: second term vanishes and first term has a special form.
DegenerateCase2(mu, eta, par_s) ==
  IF FLess(mu, FSub(eta, par_s))
    THEN [val |-> np_log(FSub(FSub(eta, mu), par_s)), case |-> "case2",
          logs |-> {FSub(FSub(eta, mu), par_s)}]
    ELSE [val |-> NegInf, case |-> "case2", logs |-> {}]

NormalCaseSumOnly(mu, sigma, eta, par_s, zi) ==
  LET b == FAdd(np_log(sigma), norm_logpdf(zi))
      a == FAdd(np_log(FAbs(FSub(FSub(eta, mu), par_s))), norm_logcdf(zi))
  IN  [val |-> FAdd(FMax(a, b),
                    np_log(FAdd(One, np_exp(FNeg(FAbs(FSub(b, a))))))),
       case |-> "normal",
       logs |-> {sigma, FAbs(FSub(FSub(eta, mu), par_s)),
                 FAdd(One, np_exp(FNeg(FAbs(FSub(b, a)))))}]

\* Normal case: log(y + z) from a = ln|y| and b = ln(z)
NormalCase(mu, sigma, eta, par_s, zi) ==
  LET b == FAdd(np_log(sigma), norm_logpdf(zi))
  IN  IF FGreater(FSub(eta, par_s), mu)
        THEN LET y == FSub(FSub(eta, mu), par_s)
                 a == FAdd(np_log(y), norm_logcdf(zi))
                 t == FAdd(One, np_exp(FNeg(FAbs(FSub(b, a)))))
             IN  [val |-> FAdd(FMax(a, b), np_log(t)), case |-> "normal",
                  logs |-> {sigma, y, t}]
        ELSE LET y == FAdd(FSub(mu, eta), par_s)
                 a == FAdd(np_log(y), norm_logcdf(zi))
                 t == FSub(One, np_exp(FSub(a, b)))
             IN  IF FGeq(a, b)
                   THEN [val |-> NegInf, case |-> "normal",
                         logs |-> {sigma, y}]
                   ELSE [val |-> FAdd(b, np_log(t)), case |-> "normal",
                         logs |-> {sigma, y, t}]

LogEI_rowVarianceFirst(mu, sigma, eta, par, zi) ==
  LET par_s == FMul(par, sigma)
  IN  IF FEq(sigma, Zero)
        THEN DegenerateCase2(mu, eta, par_s)
        ELSE IF FEq(FAbs(FSub(FSub(eta, mu), par_s)), Zero)
               THEN DegenerateCase1(sigma, zi)
               ELSE NormalCase(mu, sigma, eta, par_s, zi)

\* One pass of the loop over the rows: log_ei[i] from mu = m[i], sigma = s[i]
\* and z[i], with the case taken and the arguments np.log was given.
LogEI_row(mu, sigma, eta, par, zi) ==
  LET par_s == FMul(par, sigma)
  IN  IF FEq(FAbs(FSub(FSub(eta, mu), par_s)), Zero)
        THEN DegenerateCase1(sigma, zi)
        ELSE IF FEq(sigma, Zero)
               THEN DegenerateCase2(mu, eta, par_s)
               ELSE NormalCase(mu, sigma, eta, par_s, zi)

\* The part of LogEI.__call__ after its guards.
LogEI_compute(slf, mdl, XX) ==
  LET p == model_predict(mdl, XX)
      eta == model_getCurrentBest(mdl)
      s == [i \in 1..Len(p.v) |-> np_sqrt(p.v[i])]
      z == LogEI_z(eta, p.m, s, slf.par)
      rows == [i \in 1..Len(p.m) |-> LogEI_row(p.m[i], s[i], eta, slf.par, z[i])]
  IN  [Idle EXCEPT !.op = "LogEI",
                   !.f = [i \in 1..Len(p.m) |-> rows[i].val],
                   !.predict = 1, !.getCurrentBest = 1, !.eta = eta,
                   !.cases = [i \in 1..Len(p.m) |-> rows[i].case],
                   !.log_args = UNION { rows[i].logs : i \in 1..Len(p.m) }]

LogEI_call_BoundsFirst(slf, mdl, XX, derivative) ==
  IF OutOfBounds(XX, slf.X_lower, slf.X_upper)
    THEN [Idle EXCEPT !.op = "LogEI", !.derivative = derivative,
                      !.f = << NegFloatMax >>]
    ELSE IF derivative
           THEN Raise("LogEI", derivative, "NO_DERIVATIVE")
           ELSE LogEI_compute(slf, mdl, XX)

\* LogEI.__call__(X, Z=None, derivative)
LogEI_call(slf, mdl, XX, derivative) ==
  IF derivative
    THEN Raise("LogEI", derivative, "NO_DERIVATIVE")
    ELSE IF OutOfBounds(XX, slf.X_lower, slf.X_upper)
           THEN [Idle EXCEPT !.op = "LogEI", !.f = << NegFloatMax >>]
           ELSE LogEI_compute(slf, mdl, XX)

\* ---------------------------------------------------------------------- PI
PI_zMarginAdded(eta, m, s, par) ==
  [i \in 1..Len(m) |-> FDiv(FAdd(FSub(eta, m[i]), par), s[i])]

\* z = (eta - m - self.par) / s, elementwise
PI_z(eta, m, s, par) ==
  [i \in 1..Len(m) |-> FDiv(FSub(FSub(eta, m[i]), par), s[i])]

\* df = (-(-norm.pdf(z) / s) * (dmdx + dsdx * z)).T with dsdx = ds2dx / (2 * s),
\* for the single row of X: n entries.
PI_df(z1, s1, g) ==
  [j \in 1..Len(g.dmdx) |->
     LET dsdx == FDiv(g.ds2dx[j], FMul(Q(2, 1), s1))
     IN  FMul(FNeg(FDiv(FNeg(norm_pdf(z1)), s1)),
              FAdd(g.dmdx[j], FMul(dsdx, z1)))]

\* The part of PI.__call__ after its guards.  m and v are vectors with one
\* entry, so f has one axis and return_f = np.array([f]) is bound.
PI_compute(slf, mdl, XX, derivative) ==
  LET p == model_predict(mdl, XX)
      eta == model_getCurrentBest(mdl)
      s == [i \in 1..Len(p.v) |-> np_sqrt(p.v[i])]
      z == PI_z(eta, p.m, s, slf.par)
      f == [i \in 1..Len(z) |-> norm_cdf(z[i])]
  IN  [Idle EXCEPT !.op = "PI", !.derivative = derivative, !.f = f,
                   !.df = IF derivative
                            THEN PI_df(z[1], s[1],
                                       model_predictive_gradients(mdl, XX))
                            ELSE << >>,
                   !.predict = 1, !.getCurrentBest = 1,
                   !.predictive_gradients = IF derivative THEN 1 ELSE 0,
                   !.eta = eta]

\* The early return of PI.__call__ for a point outside the box.
PI_rejected(slf, XX, derivative) ==
  [Idle EXCEPT !.op = "PI", !.derivative = derivative, !.f = << Zero >>,
               !.df = IF derivative
                        THEN [j \in 1..Len(XX[1]) |-> Zero]
                        ELSE << >>]

PI_call_BoundsFirst(slf, mdl, XX, derivative) ==
  IF OutOfBounds(XX, slf.X_lower, slf.X_upper)
    THEN PI_rejected(slf, XX, derivative)
    ELSE IF Len(XX) > 1
           THEN Raise("PI", derivative, "SINGLE_INPUT_ONLY")
           ELSE PI_compute(slf, mdl, XX, derivative)

\* PI.__call__(X, Z=None, derivative)
PI_call(slf, mdl, XX, derivative) ==
  IF Len(XX) > 1
    THEN Raise("PI", derivative, "SINGLE_INPUT_ONLY")
    ELSE IF OutOfBounds(XX, slf.X_lower, slf.X_upper)
           THEN PI_rejected(slf, XX, derivative)
           ELSE PI_compute(slf, mdl, XX, derivative)

\* ------------------------------------------------------------ state machine
\* LogEI.__init__ / PI.__init__: the four fields an evaluator stores.
Construct(class, par) ==
  [class |-> class, model |-> "model", par |-> par,
   X_lower |-> LowerBound, X_upper |-> UpperBound]

\* The state after construction, the driver holding a batch of `batches` and the
\* model predicting means of `means` and variances of `variances` for its rows,
\* with an incumbent of `etas` and gradients of `gradients`.
InitWith(batches, means, variances, etas, gradients) ==
  /\ \E class \in {"LogEI", "PI"} : \E par \in Pars :
       self = Construct(class, par)
  /\ X \in batches
  /\ \E eta \in etas : \E g \in gradients :
     \E m \in [1..Len(X) -> means] : \E v \in [1..Len(X) -> variances] :
       model = [eta |-> eta, m |-> m, v |-> v, dmdx |-> g.dmdx,
                ds2dx |-> g.ds2dx]
  /\ ret = Idle
  /\ observations = 0

\* Batches of the numeric specification: one or two rows on the corners of the
\* box, and one row outside it.
CornerBatches ==
  { << LowerBound >>, << LowerBound, UpperBound >>,
    << Point(LowerBound[1] - 1) >> }

Init ==
  InitWith(CornerBatches, Means, Variances, Means,
           {g \in Gradients : g.ds2dx[1] # Zero})

\* Every batch, with one prediction per row.
InitGuards == InitWith(Batches, {Zero}, {One}, {Zero}, Gradients)

\* The driver evaluates a LogEI acquisition function at X.
CallLogEI ==
  /\ self.class = "LogEI"
  /\ \E derivative \in BOOLEAN : ret' = LogEI_call(self, model, X, derivative)
  /\ UNCHANGED << self, model, X, observations >>

\* The driver evaluates a PI acquisition function at X.
CallPI ==
  /\ self.class = "PI"
  /\ \E derivative \in BOOLEAN : ret' = PI_call(self, model, X, derivative)
  /\ UNCHANGED << self, model, X, observations >>

\* Between two calls the driver adds a better observation to the model, whose
\* incumbent (the lowest value seen) drops; the returned score has been consumed.
Observe ==
  /\ observations < MaxObservations
  /\ \E eta \in Means :
       /\ FLess(eta, model.eta)
       /\ model' = [model EXCEPT !.eta = eta]
  /\ ret' = Idle
  /\ observations' = observations + 1
  /\ UNCHANGED << self, X >>

Next == CallLogEI \/ CallPI \/ Observe

Spec == Init /\ [][Next]_vars

SpecGuards == InitGuards /\ [][Next]_vars

\* ------------------------------------------------------------------ claims
\* Some coordinate of some row of X lies strictly outside the box.
SomeCoordinateOutside ==
  \E i \in 1..Len(X) : \E j \in 1..Len(X[i]) :
    X[i][j] < self.X_lower[j] \/ X[i][j] > self.X_upper[j]

NoModelCall(r) ==
  r.predict = 0 /\ r.getCurrentBest = 0 /\ r.predictive_gradients = 0

\* The last call was a LogEI call that got past both guards.
LogEIComputed ==
  ret.op = "LogEI" /\ ~ret.derivative /\ ~SomeCoordinateOutside

\* The last call was a PI call that got past both guards.
PIComputed == ret.op = "PI" /\ Len(X) = 1 /\ ~SomeCoordinateOutside

\* C1 (bounds rejection): when a coordinate of a row of X is strictly outside
\* the box, a LogEI call without derivative returns the single 1x1 score
\* -finfo.max, and a single-row PI call returns the score 0 (with n zeros as
\* gradient when derivative is set); no model method is invoked.
C1_BoundsRejection ==
  /\ (ret.op = "LogEI" /\ ~ret.derivative /\ SomeCoordinateOutside)
       => /\ ret.raised = "none"
          /\ ret.f = << NegFloatMax >>
          /\ NoModelCall(ret)
  /\ (ret.op = "PI" /\ Len(X) = 1 /\ SomeCoordinateOutside)
       => /\ ret.raised = "none"
          /\ ret.f = << Zero >>
          /\ ret.df = IF ret.derivative
                        THEN [j \in 1..Len(self.X_lower) |-> Zero]
                        ELSE << >>
          /\ NoModelCall(ret)

\* A two-row LogEI call rejected for the last coordinate of its last row alone.
C1_Witness ==
  /\ ret.op = "LogEI" /\ ~ret.derivative /\ Len(X) = 2
  /\ X[1] = self.X_lower
  /\ X[2][1] = self.X_upper[1]
  /\ X[2][2] > self.X_upper[2]
  /\ ret.f = << NegFloatMax >>

\* C2 (derivative guard): a LogEI call with derivative=True raises
\* NO_DERIVATIVE whatever X is, returns no score and invokes no model method.
C2_DerivativeGuard ==
  (ret.op = "LogEI" /\ ret.derivative)
    => /\ ret.raised = "NO_DERIVATIVE"
       /\ ret.f = << >>
       /\ ret.df = << >>
       /\ NoModelCall(ret)

\* A derivative call on a two-row batch with a row outside the box raised.
C2_Witness ==
  /\ ret.op = "LogEI" /\ ret.derivative /\ Len(X) = 2
  /\ SomeCoordinateOutside
  /\ ret.raised = "NO_DERIVATIVE"

\* C3 (batch-size guard): a PI call on more than one row raises
\* SINGLE_INPUT_ONLY, with or without derivative, in or out of the box; it
\* returns no score and invokes no model method.
C3_BatchSizeGuard ==
  (ret.op = "PI" /\ Len(X) > 1)
    => /\ ret.raised = "SINGLE_INPUT_ONLY"
       /\ ret.f = << >>
       /\ ret.df = << >>
       /\ NoModelCall(ret)

\* A two-row PI call with a row below the box raised instead of returning 0.
C3_Witness ==
  /\ ret.op = "PI" /\ Len(X) = 2
  /\ X[2][1] < self.X_lower[1]
  /\ ret.raised = "SINGLE_INPUT_ONLY"

\* C4 (zero variance, LogEI): a row whose predicted variance is 0 scores
\* log(eta - m - par*s) = log(eta - m) when that is positive and -inf when it
\* is zero or negative, and never takes the general branch.
C4_LogEIZeroVariance ==
  LogEIComputed =>
    /\ Len(ret.f) = Len(X)
    /\ \A i \in 1..Len(X) :
         model.v[i] = Zero =>
           LET c == FSub(FSub(model.eta, model.m[i]), FMul(self.par, Zero))
           IN  /\ IF FGreater(c, Zero)
                    THEN /\ ret.f[i] = np_log(c)
                         /\ ret.f[i] = np_log(FSub(model.eta, model.m[i]))
                    ELSE ret.f[i] = NegInf
               /\ ret.cases[i] # "normal"

\* Two deterministic rows: one better than the incumbent, one equal to it.
C4_Witness ==
  /\ LogEIComputed /\ Len(X) = 2
  /\ model.v = << Zero, Zero >>
  /\ FLess(model.m[1], model.eta)
  /\ model.m[2] = model.eta
  /\ ret.f[1].k = "ln"
  /\ ret.f[2] = NegInf

\* C5 (zero variance, PI): a single in-box row whose predicted variance is 0
\* scores 1 when eta - m - par > 0 and 0 otherwise, also when eta - m - par = 0.
C5_PIZeroVariance ==
  (PIComputed /\ model.v[1] = Zero)
    => ret.f = << IF FGreater(FSub(FSub(model.eta, model.m[1]), self.par), Zero)
                    THEN One ELSE Zero >>

\* The plain-space expected improvement (eta - m - par*s)*Phi(z) + s*phi(z)
\* with z = (eta - m)/s - par.
NaiveEI(mu, sigma, eta, par) ==
  LET z == FSub(FDiv(FSub(eta, mu), sigma), par)
  IN  FAdd(FMul(FSub(FSub(eta, mu), FMul(par, sigma)), norm_cdf(z)),
           FMul(sigma, norm_pdf(z)))

\* C6 (log-domain consistency): wherever the naive formula yields a number,
\* exp(LogEI) equals it (in exact arithmetic).
C6_LogDomainConsistency ==
  LogEIComputed =>
    \A i \in 1..Len(X) :
      LET ei == NaiveEI(model.m[i], np_sqrt(model.v[i]), model.eta, self.par)
      IN  IsFin(ei) => np_exp(ret.f[i]) = ei

\* One row through the log-difference branch, one through the log-sum branch.
C6_Witness ==
  /\ LogEIComputed /\ Len(X) = 2
  /\ ret.cases = << "normal", "normal" >>
  /\ FGreater(model.m[1], model.eta)
  /\ FLess(FAdd(model.m[2], FMul(self.par, np_sqrt(model.v[2]))), model.eta)
  /\ ret.f[1].k = "ln" /\ ret.f[2].k = "ln"

\* The predicted mean of row i is no better than the incumbent, and the margin
\* is not negative.
WorseMean(i) == FGeq(model.m[i], model.eta) /\ FGeq(self.par, Zero)

\* The predicted mean does not beat the incumbent by more than the margin.
WithinMargin ==
  FLeq(FSub(FSub(model.eta, model.m[1]), self.par), Zero)

\* The score of a row is non-decreasing in s: for every s1 with 0 < s1 <= s,
\* where s is the row's standard deviation, the score computed with s1 in
\* its place is at most the score returned; with `worse` set, only for a PI
\* row satisfying WithinMargin and for LogEI rows satisfying WorseMean.
MonotoneInS(worse) ==
  /\ PIComputed =>
       \A v1 \in Variances :
         LET s1 == np_sqrt(v1)
             s2 == np_sqrt(model.v[1])
         IN  ((worse => WithinMargin) /\ FGreater(s1, Zero) /\ FLeq(s1, s2)) =>
               FLeq(norm_cdf(PI_z(model.eta, model.m, << s1 >>, self.par)[1]),
                    ret.f[1])
  /\ LogEIComputed =>
       \A i \in 1..Len(X) : \A v1 \in Variances :
         LET s1 == np_sqrt(v1)
             s2 == np_sqrt(model.v[i])
             z1 == LogEI_z(model.eta, << model.m[i] >>, << s1 >>, self.par)[1]
         IN  ((worse => WorseMean(i)) /\ FGreater(s1, Zero) /\ FLeq(s1, s2)) =>
               FLeq(LogEI_row(model.m[i], s1, model.eta, self.par, z1).val,
                    ret.f[i])

C8_Stateless ==
  [][ /\ self' = self
      /\ (LogEIComputed \/ PIComputed)'
           => /\ ret'.getCurrentBest = 1
              /\ ret'.eta = model.eta ]_vars

\* A call made after the incumbent dropped used the new incumbent.
C8_Witness ==
  /\ observations = 1
  /\ ret.getCurrentBest = 1
  /\ ret.eta = model.eta
  /\ ret.f # << >>

\* The case analysis of C9 for one row, from c = eta - mu - par*sigma.
C9_Expected(mu, sigma, eta, par) ==
  LET c == FSub(FSub(eta, mu), FMul(par, sigma))
      z == FSub(FDiv(FSub(eta, mu), sigma), par)
      b == FAdd(np_log(sigma), norm_logpdf(z))
      apos == FAdd(np_log(c), norm_logcdf(z))
      aneg == FAdd(np_log(FNeg(c)), norm_logcdf(z))
  IN  CASE c = Zero ->
             [val |-> IF FGreater(sigma, Zero) THEN b ELSE NegInf,
              case |-> "case1"]
        [] c # Zero /\ sigma = Zero ->
             [val |-> IF FGreater(c, Zero) THEN np_log(c) ELSE NegInf,
              case |-> "case2"]
        [] OTHER ->
             [val |-> IF FGreater(c, Zero)
                        THEN FAdd(FMax(apos, b),
                                  np_log(FAdd(One,
                                    np_exp(FNeg(FAbs(FSub(b, apos)))))))
                        ELSE IF FGeq(aneg, b) THEN NegInf
                        ELSE FAdd(b, np_log(FSub(One, np_exp(FSub(aneg, b))))),
              case |-> "normal"]

\* C9 (case selection): an in-box LogEI call returns one entry per row, entry
\* i being the case analysis applied to (m[i], s[i], eta, par): c = 0 first,
\* then sigma = 0, then the general case.
C9_CaseSelection ==
  LogEIComputed =>
    /\ Len(ret.f) = Len(X)
    /\ \A i \in 1..Len(X) :
         LET e == C9_Expected(model.m[i], np_sqrt(model.v[i]), model.eta,
                              self.par)
         IN  ret.f[i] = e.val /\ ret.cases[i] = e.case

\* A row with c = 0 and sigma = 0 beside a general row.
C9_Witness ==
  /\ LogEIComputed /\ Len(X) = 2
  /\ model.v[1] = Zero /\ model.m[1] = model.eta
  /\ ret.cases = << "case1", "normal" >>
  /\ ret.f[1] = NegInf /\ ret.f[2].k = "ln"

\* C10 (no logarithm of a non-positive quantity): every argument np.log
\* received during an in-box LogEI call is a positive number.
C10_LogArgsPositive ==
  LogEIComputed => \A x \in ret.log_args : IsFin(x) /\ x.n > 0

\* A row through the log-difference branch, which takes three logarithms.
C10_Witness ==
  /\ LogEIComputed /\ Len(X) = 1
  /\ ret.cases = << "normal" >>
  /\ FGreater(model.m[1], model.eta)
  /\ ret.f[1].k = "ln"
  /\ Cardinality(ret.log_args) = 3

=============================================================================
